---- MODULE Spec2Model ----
(***************************************************************************)
(* Model of figures/generate_figures.py: the stochastic-resonance fit of   *)
(* fig2_stochastic_resonance (try/except around scipy's curve_fit, the R^2 *)
(* and optimum derivation, the fallback) and the figure pipeline of main.  *)
(*                                                                         *)
(* numpy float64 values are modelled as decimal fixed point numbers with   *)
(* SCALE units per 1.0, together with the three IEEE special values NaN,   *)
(* +Inf and -Inf.  A finite result whose magnitude exceeds MAXFIN becomes  *)
(* an infinity, as a float64 overflow does; numpy arithmetic never raises. *)
(***************************************************************************)
EXTENDS Integers, Sequences, FiniteSets

\* ------------------------------------------------------------------------
\* float64 arithmetic
\* ------------------------------------------------------------------------

\* fixed point units per 1.0
SCALE == 100 * 100
\* largest finite magnitude (10^4 in real terms)
MAXFIN == SCALE * SCALE
\* exp overflows above this argument: e^9.3 > MAXFIN / SCALE
EXPMAX == 9 * SCALE
\* e, to SCALE digits
EULER == 27183 * (SCALE \div 10000)

Fin(n) == [k |-> "fin", v |-> n]
NaN == [k |-> "nan", v |-> 0]
PInf == [k |-> "inf", v |-> 1]
NInf == [k |-> "inf", v |-> -1]
\* a name that no assignment has bound yet
Unset == [k |-> "unset", v |-> 0]

IsFin(x) == x.k = "fin"
IsNaN(x) == x.k = "nan"
IsInf(x) == x.k = "inf"
IsNum(x) == x.k \in {"fin", "nan", "inf"}

Abs(n) == IF n < 0 THEN -n ELSE n
Sgn(n) == IF n < 0 THEN -1 ELSE IF n > 0 THEN 1 ELSE 0
InfOf(s) == IF s < 0 THEN NInf ELSE PInf

\* round a finite result into the representable range
Norm(n) == IF n > MAXFIN THEN PInf ELSE IF n < -MAXFIN THEN NInf ELSE Fin(n)

\* x * y / SCALE on magnitudes 0..MAXFIN, rounded to nearest; MAXFIN + 1 on overflow
MulMag(x, y) ==
  LET xh == x \div SCALE
      xl == x % SCALE
      yh == y \div SCALE
      yl == y % SCALE
  IN  IF xh * yh > SCALE THEN MAXFIN + 1
      ELSE xh * yh * SCALE + xh * yl + xl * yh + ((xl * yl + SCALE \div 2) \div SCALE)

\* x * SCALE / y on magnitudes, y > 0, by long division; MAXFIN + 1 on overflow
DivMag(x, y) ==
  LET q0 == x \div y
      r0 == x % y
      d1 == (r0 * 10) \div y
      r1 == (r0 * 10) % y
      d2 == (r1 * 10) \div y
      r2 == (r1 * 10) % y
      d3 == (r2 * 10) \div y
      r3 == (r2 * 10) % y
      d4 == (r3 * 10) \div y
  IN  IF q0 > SCALE THEN MAXFIN + 1
      ELSE q0 * SCALE + (d1 * 1000 + d2 * 100 + d3 * 10 + d4) * (SCALE \div 10000)

\* floor(r * r / SCALE) and whether the division was exact, r in 0..SCALE*100
SqFloor(r) ==
  LET rh == r \div SCALE
      rl == r % SCALE
  IN  rh * rh * SCALE + 2 * rh * rl + ((rl * rl) \div SCALE)
SqExact(r) == ((r % SCALE) * (r % SCALE)) % SCALE = 0
SqLe(r, x) == SqFloor(r) < x \/ (SqFloor(r) = x /\ SqExact(r))

\* largest r in lo..hi with r * r <= x * SCALE (lo satisfies it)
RECURSIVE SqrtSearch(_, _, _)
SqrtSearch(x, lo, hi) ==
  IF lo = hi THEN lo
  ELSE LET mid == (lo + hi + 1) \div 2
       IN  IF SqLe(mid, x) THEN SqrtSearch(x, mid, hi) ELSE SqrtSearch(x, lo, mid - 1)
SqrtMag(x) == SqrtSearch(x, 0, SCALE * 100)

\* Taylor series of e^f for 0 <= f < SCALE: sum of term_k, term_k = term_(k-1) * f / k
RECURSIVE ExpSeries(_, _, _)
ExpSeries(f, term, k) ==
  IF term = 0 \/ k > 12 THEN 0
  ELSE term + ExpSeries(f, MulMag(term, f) \div k, k + 1)
\* e^n for a natural n, by repeated multiplication
RECURSIVE ExpInt(_)
ExpInt(n) == IF n = 0 THEN SCALE ELSE MulMag(ExpInt(n - 1), EULER)
\* e^t for a magnitude t <= EXPMAX + SCALE
ExpMag(t) == MulMag(ExpInt(t \div SCALE), ExpSeries(t % SCALE, SCALE, 1))

Neg(x) == IF IsFin(x) THEN Fin(-x.v) ELSE IF IsInf(x) THEN InfOf(-x.v) ELSE x

Add(x, y) ==
  IF IsNaN(x) \/ IsNaN(y) THEN NaN
  ELSE IF IsInf(x) /\ IsInf(y) THEN (IF x.v = y.v THEN x ELSE NaN)
  ELSE IF IsInf(x) THEN x
  ELSE IF IsInf(y) THEN y
  ELSE Norm(x.v + y.v)

Sub(x, y) == Add(x, Neg(y))

Mul(x, y) ==
  IF IsNaN(x) \/ IsNaN(y) THEN NaN
  ELSE IF IsInf(x) \/ IsInf(y)
       THEN (IF Sgn(x.v) * Sgn(y.v) = 0 THEN NaN ELSE InfOf(Sgn(x.v) * Sgn(y.v)))
  ELSE Norm(Sgn(x.v) * Sgn(y.v) * MulMag(Abs(x.v), Abs(y.v)))

\* numpy true division: x/0 is an infinity or NaN (a warning, not an exception)
Div(x, y) ==
  IF IsNaN(x) \/ IsNaN(y) THEN NaN
  ELSE IF IsInf(x) THEN (IF IsInf(y) THEN NaN
                         ELSE InfOf(x.v * (IF y.v < 0 THEN -1 ELSE 1)))
  ELSE IF IsInf(y) THEN Fin(0)
  ELSE IF y.v = 0 THEN (IF x.v = 0 THEN NaN ELSE InfOf(x.v))
  ELSE Norm(Sgn(x.v) * Sgn(y.v) * DivMag(Abs(x.v), Abs(y.v)))

Sqrt(x) ==
  IF IsNaN(x) THEN NaN
  ELSE IF IsInf(x) THEN (IF x.v > 0 THEN PInf ELSE NaN)
  ELSE IF x.v < 0 THEN NaN
  ELSE Fin(SqrtMag(x.v))

Exp(x) ==
  IF IsNaN(x) THEN NaN
  ELSE IF IsInf(x) THEN (IF x.v > 0 THEN PInf ELSE Fin(0))
  ELSE IF x.v > EXPMAX THEN PInf
  ELSE IF x.v < -(EXPMAX + SCALE) THEN Fin(0)
  ELSE IF x.v >= 0 THEN Norm(ExpMag(x.v))
  ELSE Div(Fin(SCALE), Norm(ExpMag(-x.v)))

\* IEEE comparisons: anything compared with NaN is false
Lt(x, y) ==
  IF IsNaN(x) \/ IsNaN(y) THEN FALSE
  ELSE IF IsInf(x) THEN x.v < 0 /\ ~(IsInf(y) /\ y.v < 0)
  ELSE IF IsInf(y) THEN y.v > 0
  ELSE x.v < y.v
Gt(x, y) == Lt(y, x)
Le(x, y) == ~IsNaN(x) /\ ~IsNaN(y) /\ ~Lt(y, x)


\* ------------------------------------------------------------------------
\* the program's constants
\* ------------------------------------------------------------------------

\* p0=[0.02, 0.02, 0.0] of the curve_fit call, also the parameters of the fallback
P0 == <<Fin((2 * SCALE) \div 100), Fin((2 * SCALE) \div 100), Fin(0)>>
\* mutant of MaxFev: the call made with maxfev=10000
MaxFevDoubled == 2 * 5000

\* maxfev=5000 of the curve_fit call
MaxFev == 5000
\* the 5.0 of "if b > 0 else 5.0" and of the fallback
FALLBACK_EPS == Fin(5 * SCALE)
\* the formats save_figure writes, in its order
FORMATS == <<"pdf", "png", "eps">>

UnsetTriple == <<Unset, Unset, Unset>>

\* ------------------------------------------------------------------------
\* pure functions
\* ------------------------------------------------------------------------

\* stochastic_resonance_model: a * epsilon * np.exp(-b * epsilon**2) + c
stochastic_resonance_model(epsilon, a_, b_, c_) ==
  Add(Mul(Mul(a_, epsilon), Exp(Mul(Neg(b_), Mul(epsilon, epsilon)))), c_)

ModelAt(epsilon, p) == stochastic_resonance_model(epsilon, p[1], p[2], p[3])

\* np.sum of an array
RECURSIVE NpSum(_)
NpSum(s) == IF s = <<>> THEN Fin(0) ELSE Add(NpSum(SubSeq(s, 1, Len(s) - 1)), s[Len(s)])

\* np.mean of an array
NpMean(s) == Div(NpSum(s), Fin(Len(s) * SCALE))

\* residuals = phi_max - stochastic_resonance_model(noise, *popt)
Residuals(xs, ys, p) == [i \in 1..Len(ys) |-> Sub(ys[i], ModelAt(xs[i], p))]

\* ss_res = np.sum(residuals**2)
SSRes(xs, ys, p) ==
  LET r == Residuals(xs, ys, p) IN NpSum([i \in 1..Len(r) |-> Mul(r[i], r[i])])

\* ss_tot = np.sum((phi_max - np.mean(phi_max))**2)
SSTot(ys) ==
  LET m == NpMean(ys)
      d == [i \in 1..Len(ys) |-> Sub(ys[i], m)]
  IN  NpSum([i \in 1..Len(d) |-> Mul(d[i], d[i])])

\* r_squared = 1 - (ss_res / ss_tot)
RSquared(xs, ys, p) == Sub(Fin(SCALE), Div(SSRes(xs, ys, p), SSTot(ys)))

\* mutant of EpsilonOpt: np.sqrt(1 / b), the factor 2 dropped
EpsilonOptNoHalf(b_) ==
  IF Gt(b_, Fin(0)) THEN Sqrt(Div(Fin(SCALE), b_)) ELSE Fin(5 * SCALE)

\* mutant of EpsilonOpt: the test written b >= 0
EpsilonOptNonNegative(b_) ==
  IF Le(Fin(0), b_) THEN Sqrt(Div(Fin(SCALE), Mul(Fin(2 * SCALE), b_))) ELSE Fin(5 * SCALE)

\* epsilon_opt = np.sqrt(1 / (2 * b)) if b > 0 else 5.0
EpsilonOpt(b_) ==
  IF Gt(b_, Fin(0)) THEN Sqrt(Div(Fin(SCALE), Mul(Fin(2 * SCALE), b_))) ELSE FALLBACK_EPS

\* the builtin max over a non-empty array: keeps the first item no later one exceeds
RECURSIVE PyMaxFrom(_, _, _)
PyMaxFrom(s, i, m) ==
  IF i > Len(s) THEN m
  ELSE PyMaxFrom(s, i + 1, IF Gt(s[i], m) THEN s[i] ELSE m)
PyMax(s) == PyMaxFrom(s, 2, s[1])

\* ------------------------------------------------------------------------
\* the results file
\* ------------------------------------------------------------------------

Rec(size, level, x, y) ==
  [system_size |-> size, noise_level |-> level, noise_amplitude |-> x, max_phi |-> y]

\* the label the experiment gives a noise amplitude: 0 is the baseline, 5.0 "Very High"
LevelOf(x) ==
  IF x = 0 THEN "Baseline" ELSE IF x = 5 * SCALE THEN "Very High" ELSE "Other"

\* a results file: one Small record, then an XLarge record per point
DataOf(xs, ys) ==
  <<Rec("Small", "Baseline", 0, 0)>>
  \o [i \in 1..Len(xs) |-> Rec("XLarge", LevelOf(xs[i]), xs[i], ys[i])]

\* longest generated observation set
MaxLen == 3
\* responses of the generated observation sets: 0.0 and 1.0
YVals == {0, SCALE}
\* their stimuli: 0, 5.0, then 1.0, 2.0, ...
GridX(n) == [i \in 1..n |-> IF i = 1 THEN 0 ELSE IF i = 2 THEN 5 * SCALE ELSE (i - 2) * SCALE]
\* the stimuli 0, 5, 10, 15, 20
ScenarioX == [i \in 1..5 |-> 5 * SCALE * (i - 1)]
Generated ==
  UNION {{DataOf(GridX(n), ys) : ys \in [1..n -> YVals]} : n \in 0..MaxLen}

\* responses generated exactly from the model with parameters p
Exact(xs, p) == [i \in 1..Len(xs) |-> ModelAt(Fin(xs[i]), p).v]
Tri(av, bv, cv) == <<Fin(av), Fin(bv), Fin(cv)>>

\* the scenario x = [0, 5, 10, 15, 20], y = f(x; 0.02, 0.02, 0.0)
Scenario == DataOf(ScenarioX, Exact(ScenarioX, P0))
\* a resonance peak, a valley (a < 0), a line (b = 0), a growing curve (b < 0)
Peak == DataOf(GridX(3), Exact(GridX(3), Tri(2 * SCALE, (2 * SCALE) \div 100, 0)))
Valley == DataOf(GridX(3), Exact(GridX(3), Tri(-2 * SCALE, (2 * SCALE) \div 100, 8 * SCALE)))
Line == DataOf(GridX(3), Exact(GridX(3), Tri((2 * SCALE) \div 10, 0, 0)))
Grow == DataOf(GridX(3), Exact(GridX(3), Tri((2 * SCALE) \div 10, -((2 * SCALE) \div 100), 0)))
\* a negative and a huge stimulus
Huge == DataOf(<<-5 * SCALE, 0, 90 * SCALE>>, <<-SCALE, 0, 0>>)
\* a narrow peak on x = 0, 1, 2, with no "Very High" record
Narrow == DataOf(<<0, SCALE, 2 * SCALE>>, Exact(<<0, SCALE, 2 * SCALE>>, Tri(2 * SCALE, SCALE \div 2, 0)))

Datasets == Generated \cup {Scenario, Peak, Valley, Line, Grow, Huge, Narrow}

\* mutant of XLargeOf: the records taken without the system_size filter
XLargeOfUnfiltered(results) == results

\* xlarge_data = [r for r in results if r['system_size'] == 'XLarge']
XLargeOf(results) == SelectSeq(results, LAMBDA r : r.system_size = "XLarge")
\* noise = np.array([r['noise_amplitude'] for r in xlarge_data])
NoiseOf(results) ==
  LET xl == XLargeOf(results) IN [i \in 1..Len(xl) |-> Fin(xl[i].noise_amplitude)]
\* phi_max = np.array([r['max_phi'] for r in xlarge_data])
PhiMaxOf(results) ==
  LET xl == XLargeOf(results) IN [i \in 1..Len(xl) |-> Fin(xl[i].max_phi)]

\* the two lookups of fig4_baseline_comparison succeed
HasBaselineAndOptimal(results) ==
  /\ \E i \in 1..Len(results) :
       results[i].system_size = "XLarge" /\ results[i].noise_level = "Baseline"
  /\ \E i \in 1..Len(results) :
       results[i].system_size = "XLarge" /\ results[i].noise_level = "Very High"

\* ------------------------------------------------------------------------
\* scipy.optimize.curve_fit (Levenberg-Marquardt, no bounds given)
\* ------------------------------------------------------------------------

AVals == {-2 * SCALE, 0, (2 * SCALE) \div 100, (2 * SCALE) \div 10, 2 * SCALE}
BVals == {-((2 * SCALE) \div 100), 0, (2 * SCALE) \div 100, SCALE \div 2}
CVals == {0, SCALE, 8 * SCALE}
FinitePopts == {Tri(av, bv, cv) : av \in AVals, bv \in BVals, cv \in CVals}
NonFinitePopts == {<<NaN, NaN, NaN>>, <<PInf, Fin((2 * SCALE) \div 100), Fin(0)>>}

\* two parameter triples that differ in exactly one parameter
OneApart(p, q) == Cardinality({i \in 1..3 : p[i] # q[i]}) = 1

\* what the minimization may return for the observations.  An accepted step
\* never increases the sum of squares, so the result fits no worse than the
\* initial guess p0, and the routine stops at a least-squares solution: no
\* change of a single parameter fits strictly better.  Nothing in the call keeps
\* the parameters finite.
Minimizers(xs, ys, p0) ==
  LET ss == [p \in FinitePopts |-> SSRes(xs, ys, p)]
  IN  {p \in FinitePopts :
         /\ Le(ss[p], SSRes(xs, ys, p0))
         /\ \A q \in FinitePopts : OneApart(p, q) => ~Lt(ss[q], ss[p])}
      \cup NonFinitePopts

CurveFitResults == [d \in Datasets |-> Minimizers(NoiseOf(d), PhiMaxOf(d), P0)]

\* ------------------------------------------------------------------------
\* state
\* ------------------------------------------------------------------------

VARIABLES
  data,         \* the records load_results returns
  pc,           \* position of the run in main and in fig2_stochastic_resonance
  noise,        \* fig2: the noise array
  phi_max,      \* fig2: the phi_max array
  popt,         \* fig2: the parameters curve_fit returned
  nfev,         \* calls of the model made by the running minimization
  a,            \* fig2: a
  b,            \* fig2: b
  c,            \* fig2: c
  r_squared,    \* fig2: r_squared
  epsilon_opt,  \* fig2: epsilon_opt
  phi_opt,      \* fig2: phi_opt
  exc,          \* the exception the except clause of fig2 caught, or "none"
  failedAt,     \* the position at which that exception was raised, or "none"
  files,        \* the files written so far, in order
  out,          \* the lines printed so far, in order
  err           \* the exception that left main, or "none"

vars == <<data, pc, noise, phi_max, popt, nfev, a, b, c, r_squared, epsilon_opt,
          phi_opt, exc, failedAt, files, out, err>>

fitVars == <<popt, nfev, a, b, c, r_squared, epsilon_opt, phi_opt, exc, failedAt>>
ioVars == <<files, out, err>>

\* the positions inside the try block of fig2_stochastic_resonance
Guarded == {"curve_fit", "lm", "unpack", "resid", "opt"}

Init ==
  /\ data \in Datasets
  /\ pc = "main"
  /\ noise = <<>>
  /\ phi_max = <<>>
  /\ popt = UnsetTriple
  /\ nfev = 0
  /\ a = Unset
  /\ b = Unset
  /\ c = Unset
  /\ r_squared = Unset
  /\ epsilon_opt = Unset
  /\ phi_opt = Unset
  /\ exc = "none"
  /\ failedAt = "none"
  /\ files = <<>>
  /\ out = <<>>
  /\ err = "none"

\* ------------------------------------------------------------------------
\* save_figure and the figures around the fit
\* ------------------------------------------------------------------------

\* the three fig.savefig calls of save_figure, in order
Saved(name) == [i \in 1..Len(FORMATS) |-> <<name, FORMATS[i]>>]

\* save_figure(fig, name): three files, then the "Generated" line
save_figure(name) ==
  /\ files' = files \o Saved(name)
  /\ out' = Append(out, "Generated: " \o name)

\* main, up to the first figure: the banner
MainStart ==
  /\ pc = "main"
  /\ out' = out \o <<"banner">>
  /\ pc' = "fig1"
  /\ UNCHANGED <<data, noise, phi_max, fitVars, files, err>>

\* fig1_phi_vs_noise: a size without records plots an empty line
Fig1 ==
  /\ pc = "fig1"
  /\ save_figure("fig1_phi_vs_noise")
  /\ pc' = "fig2_load"
  /\ UNCHANGED <<data, noise, phi_max, fitVars, err>>

\* fig2_stochastic_resonance, up to the try block
Fig2Load ==
  /\ pc = "fig2_load"
  /\ noise' = NoiseOf(data)
  /\ phi_max' = PhiMaxOf(data)
  /\ pc' = "curve_fit"
  /\ UNCHANGED <<data, fitVars, ioVars>>

\* ------------------------------------------------------------------------
\* the try block
\* ------------------------------------------------------------------------

\* mutant of Catches: the clause written "except RuntimeError:"
CatchesRuntimeErrorOnly(name) ==
  name \in {"RuntimeError: maxfev", "RuntimeError: tolerance"}

\* mutant of Catches: the call made without a try statement
CatchesNothing(name) == FALSE

\* "except:" names no exception class: the clause catches every exception
Catches(name) == TRUE

\* an exception raised at position pc of the try block: caught by the except
\* clause, or else leaving fig2_stochastic_resonance and main
Raise(name) ==
  /\ failedAt' = pc
  /\ nfev' = 0
  /\ IF Catches(name)
       THEN /\ exc' = name
            /\ pc' = "except"
            /\ UNCHANGED err
       ELSE /\ err' = name
            /\ pc' = "raised"
            /\ UNCHANGED exc

\* curve_fit, before the minimization: empty ydata is a ValueError, fewer
\* observations than parameters a TypeError
CurveFitEnter ==
  /\ pc = "curve_fit"
  /\ IF Len(phi_max) = 0
       THEN Raise("ValueError") /\ UNCHANGED popt
       ELSE IF Len(phi_max) < Len(P0)
         THEN Raise("TypeError") /\ UNCHANGED popt
         ELSE /\ pc' = "lm"
              /\ nfev' = 0
              /\ UNCHANGED <<popt, exc, failedAt, err>>
  /\ UNCHANGED <<data, noise, phi_max, a, b, c, r_squared, epsilon_opt, phi_opt,
                 files, out>>

\* one more call of the model by the minimization, while maxfev allows it
LMEval ==
  /\ pc = "lm"
  /\ nfev < MaxFev
  /\ nfev' = nfev + 1
  /\ UNCHANGED <<data, pc, noise, phi_max, popt, a, b, c, r_squared, epsilon_opt,
                 phi_opt, exc, failedAt, ioVars>>

\* the minimization converges: popt, pcov = curve_fit(...)
LMConverge ==
  /\ pc = "lm"
  /\ nfev >= 1
  /\ \E p \in CurveFitResults[data] : popt' = p
  /\ nfev' = 0
  /\ pc' = "unpack"
  /\ UNCHANGED <<data, noise, phi_max, a, b, c, r_squared, epsilon_opt, phi_opt,
                 exc, failedAt, ioVars>>

\* the minimization used up maxfev calls: curve_fit raises RuntimeError
LMMaxFev ==
  /\ pc = "lm"
  /\ nfev = MaxFev
  /\ Raise("RuntimeError: maxfev")
  /\ UNCHANGED <<data, noise, phi_max, popt, a, b, c, r_squared, epsilon_opt,
                 phi_opt, files, out>>

\* the minimization stops on a tolerance it cannot meet: curve_fit raises RuntimeError
LMGiveUp ==
  /\ pc = "lm"
  /\ nfev >= 1
  /\ Raise("RuntimeError: tolerance")
  /\ UNCHANGED <<data, noise, phi_max, popt, a, b, c, r_squared, epsilon_opt,
                 phi_opt, files, out>>

\* a, b, c = popt
Unpack ==
  /\ pc = "unpack"
  /\ a' = popt[1]
  /\ b' = popt[2]
  /\ c' = popt[3]
  /\ pc' = "resid"
  /\ UNCHANGED <<data, noise, phi_max, popt, nfev, r_squared, epsilon_opt, phi_opt,
                 exc, failedAt, ioVars>>

\* residuals, ss_res, ss_tot, r_squared
Resid ==
  /\ pc = "resid"
  /\ r_squared' = RSquared(noise, phi_max, popt)
  /\ pc' = "opt"
  /\ UNCHANGED <<data, noise, phi_max, popt, nfev, a, b, c, epsilon_opt, phi_opt,
                 exc, failedAt, ioVars>>

\* epsilon_opt, phi_opt
Opt ==
  /\ pc = "opt"
  /\ epsilon_opt' = EpsilonOpt(b)
  /\ phi_opt' = ModelAt(epsilon_opt', popt)
  /\ pc' = "fig2_plot"
  /\ UNCHANGED <<data, noise, phi_max, popt, nfev, a, b, c, r_squared,
                 exc, failedAt, ioVars>>

\* any other exception raised inside the try block (the bare except catches
\* every BaseException: KeyboardInterrupt, MemoryError, a warning turned error)
GuardedFault ==
  /\ pc \in Guarded
  /\ Raise("KeyboardInterrupt")
  /\ UNCHANGED <<data, noise, phi_max, popt, a, b, c, r_squared, epsilon_opt,
                 phi_opt, files, out>>

\* mutant of FallbackParams: parameters already unpacked are kept
FallbackParamsKeepFitted == IF a = Unset THEN P0 ELSE <<a, b, c>>

\* a, b, c = 0.02, 0.02, 0.0 of the except clause
FallbackParams == P0

\* the except clause: the four assignments in order; max() of an empty array
\* raises ValueError, which leaves fig2_stochastic_resonance and main
Except ==
  /\ pc = "except"
  /\ a' = FallbackParams[1]
  /\ b' = FallbackParams[2]
  /\ c' = FallbackParams[3]
  /\ r_squared' = Fin(0)
  /\ epsilon_opt' = FALLBACK_EPS
  /\ IF Len(phi_max) = 0
       THEN /\ err' = "ValueError"
            /\ pc' = "raised"
            /\ UNCHANGED phi_opt
       ELSE /\ phi_opt' = PyMax(phi_max)
            /\ pc' = "fig2_plot"
            /\ UNCHANGED err
  /\ UNCHANGED <<data, noise, phi_max, popt, nfev, exc, failedAt, files, out>>

\* ------------------------------------------------------------------------
\* the rest of the run
\* ------------------------------------------------------------------------

\* fig2_stochastic_resonance after the try statement: the plot and save_figure
Fig2Plot ==
  /\ pc = "fig2_plot"
  /\ save_figure("fig2_stochastic_resonance")
  /\ pc' = "fig3"
  /\ UNCHANGED <<data, noise, phi_max, fitVars, err>>

\* fig3_system_scaling
Fig3 ==
  /\ pc = "fig3"
  /\ save_figure("fig3_system_scaling")
  /\ pc' = "fig4"
  /\ UNCHANGED <<data, noise, phi_max, fitVars, err>>

\* fig4_baseline_comparison: each lookup takes element [0] of a filtered list
Fig4 ==
  /\ pc = "fig4"
  /\ IF HasBaselineAndOptimal(data)
       THEN /\ save_figure("fig4_baseline_comparison")
            /\ pc' = "finish"
            /\ UNCHANGED err
       ELSE /\ err' = "IndexError"
            /\ pc' = "raised"
            /\ UNCHANGED <<files, out>>
  /\ UNCHANGED <<data, noise, phi_max, fitVars>>

\* main after the four figures
Finish ==
  /\ pc = "finish"
  /\ out' = out \o <<"All figures generated successfully!">>
  /\ pc' = "done"
  /\ UNCHANGED <<data, noise, phi_max, fitVars, files, err>>

Next ==
  \/ MainStart
  \/ Fig1
  \/ Fig2Load
  \/ CurveFitEnter
  \/ LMEval
  \/ LMConverge
  \/ LMMaxFev
  \/ LMGiveUp
  \/ Unpack
  \/ Resid
  \/ Opt
  \/ GuardedFault
  \/ Except
  \/ Fig2Plot
  \/ Fig3
  \/ Fig4
  \/ Finish

Spec == Init /\ [][Next]_vars

\* ------------------------------------------------------------------------
\* properties
\* ------------------------------------------------------------------------

\* the values of the documented fallback, written out
Guess002 == Fin((2 * SCALE) \div 100)
Five == Fin(5 * SCALE)
One == Fin(SCALE)
\* e^(-1/2) to four digits
ExpMinusHalf == Fin(6065 * (SCALE \div 10000))
\* tolerance of the fixed point arithmetic: 0.01
Tol == SCALE \div 100

\* the try statement of fig2 has been left normally
FitEnded ==
  \/ pc \in {"fig2_plot", "fig3", "fig4", "finish", "done"}
  \/ (pc = "raised" /\ err = "IndexError")
\* ... on the success path
Succeeded == FitEnded /\ exc = "none"
FiniteParams == IsFin(popt[1]) /\ IsFin(popt[2]) /\ IsFin(popt[3])
NoXLargeRecord == \A i \in 1..Len(data) : data[i].system_size # "XLarge"
\* an exception left fig2_stochastic_resonance: fig1 is written, fig2 is not
RaisedInFig2 == pc = "raised" /\ Len(files) = 3

\* y is the largest element of the non-empty array s
IsMaxOf(y, s) ==
  /\ \E i \in 1..Len(s) : s[i] = y
  /\ \A i \in 1..Len(s) : s[i].v <= y.v

\* the six result fields hold the documented fallback
IsFallback ==
  /\ a = Guess002
  /\ b = Guess002
  /\ c = Fin(0)
  /\ r_squared = Fin(0)
  /\ epsilon_opt = Five
  /\ IsMaxOf(phi_opt, phi_max)

Near(x, y) == IsFin(x) /\ IsFin(y) /\ Abs(x.v - y.v) <= Tol

\* C1: with a non-empty observation set the fit step never raises to its caller,
\* and once it has ended all six result fields a, b, c, r_squared, epsilon_opt and
\* phi_opt are assigned.
C1_NeverRaisesAllAssigned ==
  ~NoXLargeRecord =>
    /\ ~RaisedInFig2
    /\ FitEnded => \A f \in {a, b, c, r_squared, epsilon_opt, phi_opt} : IsNum(f)

\* a single observation: curve_fit raised TypeError and the fit step ended
C1_Witness ==
  /\ FitEnded
  /\ Len(phi_max) = 1
  /\ exc = "TypeError"
  /\ IsNum(phi_opt)

\* C2: whenever a guarded step fails, the result is exactly the fallback tuple
\* (0.02, 0.02, 0.0), R^2 = 0, optimum location 5.0, optimum value max(y); nothing
\* computed on the success path before the failure survives.
C2_FailureGivesFallback ==
  (FitEnded /\ exc # "none") => IsFallback

\* the optimum derivation failed after parameters other than the guess were unpacked
C2_Witness ==
  /\ FitEnded
  /\ failedAt = "opt"
  /\ FiniteParams
  /\ popt[1] # Guess002
  /\ popt[2] # Guess002

\* C3: a minimization that returns non-finite parameters without raising is
\* treated as a convergence failure: the result is the documented fallback.
C3_NonFiniteIsFallback ==
  (FitEnded /\ popt # UnsetTriple /\ ~FiniteParams) => IsFallback

\* C4: R^2 of every fit result is a defined real number <= 1, also when all
\* responses are identical (SS_tot = 0); on the success path it is
\* 1 - SS_res/SS_tot.  Stated for fallback results and for finite fitted
\* parameters (non-finite parameters are the case of C3).
C4_RSquaredDefined ==
  (FitEnded /\ (exc = "none" => FiniteParams)) =>
    /\ IsFin(r_squared)
    /\ r_squared.v <= SCALE
    /\ exc = "none" =>
         r_squared = Sub(One, Div(SSRes(noise, phi_max, <<a, b, c>>), SSTot(phi_max)))

\* C5: after a successful fit with fitted b > 0, epsilon_opt is sqrt(1/(2b)) and
\* phi_opt is the model at epsilon_opt with the fitted parameters: with finite
\* parameters 2 b x*^2 = 1 and y* = a x* e^(-1/2) + c up to the arithmetic's tolerance.
C5_OptimumFromB ==
  (Succeeded /\ Gt(b, Fin(0))) =>
    /\ <<a, b, c>> = popt
    /\ epsilon_opt = Sqrt(Div(One, Mul(Fin(2 * SCALE), b)))
    /\ phi_opt = Add(Mul(Mul(a, epsilon_opt), Exp(Mul(Neg(b), Mul(epsilon_opt, epsilon_opt)))), c)
    /\ FiniteParams =>
         /\ Near(Mul(Mul(Fin(2 * SCALE), b), Mul(epsilon_opt, epsilon_opt)), One)
         /\ Near(phi_opt, Add(Mul(Mul(a, epsilon_opt), ExpMinusHalf), c))

\* a successful fit with b = 0.5: the optimum lies at 1.0, not at the constant 5.0
C5_Witness ==
  /\ Succeeded
  /\ b = Fin(SCALE \div 2)
  /\ a = Fin(2 * SCALE)
  /\ epsilon_opt = One

\* the distances at which the optimum is compared with its neighbours: 0.5 and 1.0
Deltas == {Fin(SCALE \div 2), Fin(SCALE)}
FittedAt(x) == stochastic_resonance_model(x, a, b, c)

\* C6: after a successful fit with b > 0, whatever the sign of a, the reported
\* optimum is a local maximum of the fitted curve: f(x* - d) < f(x*) and
\* f(x* + d) < f(x*).
C6_OptimumIsLocalMax ==
  (Succeeded /\ FiniteParams /\ Gt(b, Fin(0))) =>
    \A d \in Deltas :
      /\ Lt(FittedAt(Sub(epsilon_opt, d)), phi_opt)
      /\ Lt(FittedAt(Add(epsilon_opt, d)), phi_opt)

\* C7: with no observation selected for the fit, no result is returned: the
\* failure leaves fig2_stochastic_resonance and no fig2 file is written.
C7_EmptyPropagates ==
  NoXLargeRecord =>
    /\ ~FitEnded
    /\ \A i \in 1..Len(files) : files[i][1] # "fig2_stochastic_resonance"
    /\ pc = "raised" => (err = "ValueError" /\ phi_opt = Unset)

\* the run has ended in fig2 with only the files of fig1 written
C7_Witness ==
  /\ NoXLargeRecord
  /\ pc = "raised"
  /\ err = "ValueError"
  /\ files = <<<<"fig1_phi_vs_noise", "pdf">>, <<"fig1_phi_vs_noise", "png">>,
               <<"fig1_phi_vs_noise", "eps">>>>

\* the twelve files of a run, in the order of the module docstring
AllFiles ==
  <<<<"fig1_phi_vs_noise", "pdf">>, <<"fig1_phi_vs_noise", "png">>,
    <<"fig1_phi_vs_noise", "eps">>,
    <<"fig2_stochastic_resonance", "pdf">>, <<"fig2_stochastic_resonance", "png">>,
    <<"fig2_stochastic_resonance", "eps">>,
    <<"fig3_system_scaling", "pdf">>, <<"fig3_system_scaling", "png">>,
    <<"fig3_system_scaling", "eps">>,
    <<"fig4_baseline_comparison", "pdf">>, <<"fig4_baseline_comparison", "png">>,
    <<"fig4_baseline_comparison", "eps">>>>
SuccessPrinted == \E i \in 1..Len(out) : out[i] = "All figures generated successfully!"
\* the results hold the XLarge baseline and XLarge "Very High" records fig4 reads
WellFormed ==
  /\ \E i \in 1..Len(data) :
       data[i].system_size = "XLarge" /\ data[i].noise_level = "Baseline"
  /\ \E i \in 1..Len(data) :
       data[i].system_size = "XLarge" /\ data[i].noise_level = "Very High"

\* C8: with well-formed input a convergence failure does not abort main: the
\* files are written in the order fig1..fig4, each as pdf, png, eps; the run ends
\* with all twelve, and the success message is printed only after the twelfth.
C8_MainWritesAll ==
  WellFormed =>
    /\ pc # "raised"
    /\ Len(files) <= Len(AllFiles)
    /\ files = SubSeq(AllFiles, 1, Len(files))
    /\ SuccessPrinted => files = AllFiles
    /\ pc = "done" => (files = AllFiles /\ SuccessPrinted)

\* a run whose minimization used up maxfev has ended with the twelve files
C8_Witness ==
  /\ pc = "done"
  /\ exc = "RuntimeError: maxfev"
  /\ Len(files) = 12
  /\ SuccessPrinted

\* C9: when the minimization succeeds with fitted b <= 0 the failure fallback is
\* not taken: epsilon_opt is the constant 5.0, the parameters stay the fitted
\* ones, R^2 is the computed 1 - SS_res/SS_tot and phi_opt is the fitted model
\* at 5.0 (5a + c when b = 0).
C9_NonPositiveB ==
  (Succeeded /\ FiniteParams /\ popt[2].v <= 0) =>
    /\ <<a, b, c>> = popt
    /\ epsilon_opt = Five
    /\ r_squared = Sub(One, Div(SSRes(noise, phi_max, popt), SSTot(phi_max)))
    /\ phi_opt = stochastic_resonance_model(Five, popt[1], popt[2], popt[3])
    /\ popt[2].v = 0 => phi_opt = Add(Mul(Fin(5 * SCALE), popt[1]), popt[3])

\* a successful fit with b < 0 whose optimum value is not max(y) and whose
\* parameters are not the guess
C9_Witness ==
  /\ Succeeded
  /\ IsFin(b)
  /\ b.v < 0
  /\ a # Guess002
  /\ IsFin(phi_opt)
  /\ ~IsMaxOf(phi_opt, phi_max)

\* the run is inside the fit step
InFit == pc \in Guarded \cup {"except"}

\* the steps the fit step can still take, at most: the calls the minimization
\* has left, then the five steps that follow it
StepsLeft ==
  CASE pc = "curve_fit" -> 5000 + 6
    [] pc = "lm" -> (5000 - nfev) + 5
    [] pc = "unpack" -> 4
    [] pc = "resid" -> 3
    [] pc = "opt" -> 2
    [] pc = "except" -> 1
    [] OTHER -> 0

====
